---- MODULE Spec2Model ----
(***************************************************************************)
(* The note store of src/src/App.tsx: the note collection, the active-note *)
(* pointer, the candidate password, the session undo/redo stacks and the   *)
(* keyboard-shortcut handler, whose closure is re-registered only when     *)
(* activeNoteId, undoStack or redoStack change.                            *)
(*                                                                         *)
(* Titles, ids, tags and passwords are sequences of one-character strings; *)
(* contents and status messages are texts.                                 *)
(* An optional field that the code only reads for truthiness (favorite,    *)
(* isLocked, isArchived) is a BOOLEAN, FALSE standing for undefined too;   *)
(* the optional password is <<>> when undefined and <<p>> when it is p.    *)
(***************************************************************************)
EXTENDS Integers, Sequences, FiniteSets

VARIABLES
    notes,          \* useState<Note[]>, line 25
    activeNoteId,   \* line 49
    statusMessage,  \* line 50
    timers,         \* due times of the setTimeout calls of showStatus not run yet
    searchQuery,    \* line 51
    selectedTags,   \* line 52
    sortOption,     \* line 56
    sortDirection,  \* line 57
    newTag,         \* line 58
    password,       \* line 60, the candidate password typed by the user
    undoStack,      \* line 61
    redoStack,      \* line 62
    kbNotes,        \* the `notes` captured by the registered handleKeyboard closure
    storage,        \* localStorage 'notes': the parsed JSON text, lines 26 and 65
    now,            \* the millisecond the clock stands at (Date.now(), new Date())
    crashed,        \* the component threw while handling an event or rendering
    isDarkMode,     \* lines 53-55
    copying,        \* clipboard writes of copyToClipboard not settled yet
    ops,            \* number of events handled so far (user events, clock ticks, timers)
    asides,         \* how many of them changed the view or only reported a status
    log,            \* editing session: the contents c0, c1, ..., ck of the active note
    back,           \* editing session: undos not yet redone
    phase           \* editing session: "edit", "undo", "redo"; "none" outside one

vars == << notes, activeNoteId, statusMessage, timers, searchQuery, selectedTags,
           sortOption, sortDirection, newTag, password, undoStack,
           redoStack, kbNotes, storage, now, crashed, isDarkMode, copying,
           ops, asides, log, back, phase >>

session == << log, back, phase >>

\* The theme and the clipboard writes in flight
chrome == << isDarkMode, copying >>

\* The inputs of the derived view other than the collection.
query == << searchQuery, selectedTags, sortOption, sortDirection >>

\* The events of one run.
MaxOps == 4

\* Of the events of a run, at most MaxAsides are changes of the query, of the
\* theme, or gestures that only report a status.
MaxAsides == 1

\* The events of one run of the lock-gate operations alone.
MaxGateOps == 5

\* The edits of one editing session.
MaxEdits == 3

\* The notes of a saved collection the derived view is computed over.
MaxSaved == 3

\* slice(0, 50) of the title, line 235
TitleMax == 50

-----------------------------------------------------------------------------
\* String helpers

Untitled == << "U", "n", "t", "i", "t", "l", "e", "d" >>

NewNoteTitle == << "N", "e", "w", " ", "N", "o", "t", "e" >>

WelcomeTitle == << "W", "e", "l", "c", "o", "m", "e", " ", "N", "o", "t", "e" >>

WelcomeChars ==
    << "W", "e", "l", "c", "o", "m", "e", " ", "t", "o", " ", "y",
       "o", "u", "r", " ", "e", "n", "h", "a", "n", "c", "e", "d",
       " ", "n", "o", "t", "e", "p", "a", "d", "!", " ", "S", "t",
       "a", "r", "t", " ", "t", "y", "p", "i", "n", "g", ".", ".",
       ".", "\n", "\n", "K", "e", "y", "b", "o", "a", "r", "d", " ",
       "s", "h", "o", "r", "t", "c", "u", "t", "s", ":", "\n", "-",
       " ", "C", "t", "r", "l", "/", "C", "m", "d", " ", "+", " ",
       "N", ":", " ", "N", "e", "w", " ", "n", "o", "t", "e", "\n",
       "-", " ", "C", "t", "r", "l", "/", "C", "m", "d", " ", "+",
       " ", "S", ":", " ", "S", "a", "v", "e", " ", "n", "o", "t",
       "e", "\n", "-", " ", "C", "t", "r", "l", "/", "C", "m", "d",
       " ", "+", " ", "D", ":", " ", "D", "o", "w", "n", "l", "o",
       "a", "d", " ", "n", "o", "t", "e", "\n", "-", " ", "C", "t",
       "r", "l", "/", "C", "m", "d", " ", "+", " ", "F", ":", " ",
       "S", "e", "a", "r", "c", "h", " ", "n", "o", "t", "e", "s",
       "\n", "-", " ", "C", "t", "r", "l", "/", "C", "m", "d", " ",
       "+", " ", "B", ":", " ", "T", "o", "g", "g", "l", "e", " ",
       "b", "o", "l", "d", "\n", "-", " ", "C", "t", "r", "l", "/",
       "C", "m", "d", " ", "+", " ", "I", ":", " ", "T", "o", "g",
       "g", "l", "e", " ", "i", "t", "a", "l", "i", "c", "\n", "-",
       " ", "C", "t", "r", "l", "/", "C", "m", "d", " ", "+", " ",
       "U", ":", " ", "T", "o", "g", "g", "l", "e", " ", "u", "n",
       "d", "e", "r", "l", "i", "n", "e", "\n", "-", " ", "C", "t",
       "r", "l", "/", "C", "m", "d", " ", "+", " ", "Z", ":", " ",
       "U", "n", "d", "o", "\n", "-", " ", "C", "t", "r", "l", "/",
       "C", "m", "d", " ", "+", " ", "Y", ":", " ", "R", "e", "d",
       "o" >>

\* The seeded content, line 30
WelcomeContent == "Welcome to your enhanced notepad! Start typing...\n\nKeyboard shortcuts:\n- Ctrl/Cmd + N: New note\n- Ctrl/Cmd + S: Save note\n- Ctrl/Cmd + D: Download note\n- Ctrl/Cmd + F: Search notes\n- Ctrl/Cmd + B: Toggle bold\n- Ctrl/Cmd + I: Toggle italic\n- Ctrl/Cmd + U: Toggle underline\n- Ctrl/Cmd + Z: Undo\n- Ctrl/Cmd + Y: Redo"

\* The texts the user can leave in the text area.
Contents == { "", "Hi", "Hi\nyo" }

\* The characters of a content. A content is never computed, only typed,
\* stored and moved between the note and the stacks, so the state holds it
\* as a text and the code that reads its characters goes through Chars.
Chars(s) ==
    CASE s = "" -> << >>
      [] s = "Hi" -> << "H", "i" >>
      [] s = "Hi\nyo" -> << "H", "i", "\n", "y", "o" >>
      [] s = WelcomeContent -> WelcomeChars
      [] s = "Banana" -> << "B", "a", "n", "a", "n", "a" >>
      [] s = "Apple" -> << "A", "p", "p", "l", "e" >>
      [] s = "cherry" -> << "c", "h", "e", "r", "r", "y" >>

\* The candidate passwords the user can type ('' is the empty field).
Passwords == { << >>, << "p" >>, << "q" >> }

\* The tag texts the user can type ('' is the empty field).
TagInputs == { << >>, << "a" >> }

WelcomeTag == << "w", "e", "l", "c", "o", "m", "e" >>

\* The tags a note can carry.
TagTexts == (TagInputs \ { << >> }) \cup { WelcomeTag }

FormatTypes == { "bold", "italic", "underline" }

Digit(d) == CASE d = 0 -> "0" [] d = 1 -> "1" [] d = 2 -> "2" [] d = 3 -> "3"
              [] d = 4 -> "4" [] d = 5 -> "5" [] d = 6 -> "6" [] d = 7 -> "7"
              [] d = 8 -> "8" [] d = 9 -> "9"

\* Number.prototype.toString() of a non-negative integer
RECURSIVE ToString(_)
ToString(n) == IF n < 10 THEN << Digit(n) >>
               ELSE Append(ToString(n \div 10), Digit(n % 10))

\* content.split('\n')[0]
RECURSIVE FirstLine(_)
FirstLine(s) == IF s = << >> \/ Head(s) = "\n" THEN << >>
                ELSE << Head(s) >> \o FirstLine(Tail(s))

\* s.slice(0, n)
Slice(s, n) == SubSeq(s, 1, IF Len(s) < n THEN Len(s) ELSE n)

\* content.split('\n')[0].slice(0, 50) || 'Untitled'
TitleOf(content) ==
    LET t == Slice(FirstLine(Chars(content)), TitleMax)
    IN  IF t = << >> THEN Untitled ELSE t

\* The letters, in the order of the alphabet
Alphabet ==
    << "a", "b", "c", "d", "e", "f", "g", "h", "i", "j", "k", "l", "m",
       "n", "o", "p", "q", "r", "s", "t", "u", "v", "w", "x", "y", "z" >>

Capitals ==
    << "A", "B", "C", "D", "E", "F", "G", "H", "I", "J", "K", "L", "M",
       "N", "O", "P", "Q", "R", "S", "T", "U", "V", "W", "X", "Y", "Z" >>

\* String.prototype.toLowerCase of one character
LowerChar(c) ==
    IF \E i \in 1..Len(Capitals) : Capitals[i] = c
    THEN Alphabet[CHOOSE i \in 1..Len(Capitals) : Capitals[i] = c]
    ELSE c

\* s.toLowerCase()
ToLowerCase(s) == [ i \in 1..Len(s) |-> LowerChar(s[i]) ]

\* s.includes(q): q occurs in s at some position
StringIncludes(s, q) ==
    \E k \in 0..(Len(s) - Len(q)) : SubSeq(s, k + 1, k + Len(q)) = q

\* parseInt(s) of a string of digits
RECURSIVE ParseInt(_)
ParseInt(s) ==
    IF s = << >> THEN 0
    ELSE 10 * ParseInt(SubSeq(s, 1, Len(s) - 1))
         + (CHOOSE d \in 0..9 : Digit(d) = s[Len(s)])

\* The primary weight of a character in the collation localeCompare uses: the
\* space sorts before the letters, a letter and its capital weigh the same.
Weight(c) ==
    IF c = " " THEN 0
    ELSE CHOOSE i \in 1..Len(Alphabet) : Alphabet[i] = LowerChar(c)

\* The first position where the characters of a and b differ, 0 if there is
\* none within the shorter of the two
FirstDifference(a, b) ==
    LET m == IF Len(a) < Len(b) THEN Len(a) ELSE Len(b)
    IN  IF \E i \in 1..m : a[i] # b[i]
        THEN CHOOSE i \in 1..m : a[i] # b[i] /\ \A j \in 1..(i - 1) : a[j] = b[j]
        ELSE 0

\* The primary weights of the characters of s
Weights(s) == [ i \in 1..Len(s) |-> Weight(s[i]) ]

\* a.localeCompare(b) for strings of letters and spaces: negative, zero or
\* positive. The letters decide first, whatever their case; between strings
\* with the same letters the lower case sorts first.
localeCompare(a, b) ==
    LET p == FirstDifference(Weights(a), Weights(b))
        t == FirstDifference(a, b)
    IN  IF p # 0 THEN (IF Weight(a[p]) < Weight(b[p]) THEN -1 ELSE 1)
        ELSE IF Len(a) # Len(b) THEN (IF Len(a) < Len(b) THEN -1 ELSE 1)
        ELSE IF t # 0 THEN (IF LowerChar(a[t]) = a[t] THEN -1 ELSE 1)
        ELSE 0

-----------------------------------------------------------------------------
\* Notes

NoFormat == [ bold |-> << FALSE >>, italic |-> << FALSE >>, underline |-> << FALSE >> ]

WelcomeNote(t) ==
    [ id |-> << "1" >>, title |-> WelcomeTitle, content |-> WelcomeContent,
      lastModified |-> t, favorite |-> TRUE, tags |-> << WelcomeTag >>,
      format |-> NoFormat, isLocked |-> FALSE, password |-> << >>,
      isArchived |-> FALSE, version |-> 1, history |-> << >> ]

\* createNewNote, lines 246-259: Date.now() at line 247 read `created`, and
\* new Date() at line 250 read `modified`
NewNote(created, modified) ==
    [ id |-> ToString(created), title |-> NewNoteTitle, content |-> "",
      lastModified |-> modified, favorite |-> FALSE, tags |-> << >>,
      format |-> NoFormat, isLocked |-> FALSE, password |-> << >>,
      isArchived |-> FALSE, version |-> 1, history |-> << >> ]

\* notes.findIndex(note => note.id === id) + 1, 0 when there is none
FindIndex(ns, id) ==
    IF \E i \in 1..Len(ns) : ns[i].id = id
    THEN CHOOSE i \in 1..Len(ns) :
            ns[i].id = id /\ \A j \in 1..(i - 1) : ns[j].id # id
    ELSE 0

\* notes.find(note => note.id === activeNoteId) || notes[0]
ActiveOf(ns, id) == IF FindIndex(ns, id) # 0 THEN ns[FindIndex(ns, id)] ELSE ns[1]

activeNote == ActiveOf(notes, activeNoteId)

\* notes.map(note => note.id === id ? f(note) : note)
MapId(ns, id, f(_)) == [ i \in 1..Len(ns) |-> IF ns[i].id = id THEN f(ns[i]) ELSE ns[i] ]

\* note.isLocked && note.password !== password
Gated(note, pw) == note.isLocked /\ note.password # << pw >>

\* The place of ns[i] among the notes of ns that have its id
Occurrence(ns, i) == Cardinality({ j \in 1..i : ns[j].id = ns[i].id })

\* The number of notes of ns whose id is `id`
Count(ns, id) == Cardinality({ i \in 1..Len(ns) : ns[i].id = id })

\* The readings n successive calls of new Date() can give when the first
\* reads t: the clock never goes back, and it may pass a millisecond between
\* two calls.
Readings(n, t) ==
    { ts \in [ 1..n -> t..(t + n) ] :
         /\ n > 0 => ts[1] = t
         /\ \A k \in 1..(n - 1) : ts[k + 1] \in { ts[k], ts[k] + 1 } }

\* Where the clock stands after the readings ts of a handler entered at t
LastReading(ts, t) == IF ts = << >> THEN t ELSE ts[Len(ts)]

-----------------------------------------------------------------------------
\* Persistence, lines 25-47 and 64-67. The stored text is held as the JSON
\* value it denotes: an array of objects whose lastModified is the text
\* Date.prototype.toJSON gives, and that have no key for an undefined field.

NoteKeys ==
    { "id", "title", "content", "lastModified", "favorite", "tags", "format",
      "isLocked", "password", "isArchived", "version", "history" }

\* Date.prototype.toJSON: the instant, to the millisecond, as a text
ToISOString(t) == ToString(t) \o << "Z" >>

\* DateOf losing the last digit of the milliseconds
DateOfRounded(text) == (ParseInt(SubSeq(text, 1, Len(text) - 1)) \div 10) * 10

\* new Date(text) of such a text
DateOf(text) == ParseInt(SubSeq(text, 1, Len(text) - 1))

\* JSON.stringify of one note: a key whose value is undefined is left out
StringifyNote(note) ==
    [ k \in NoteKeys \ (IF note.password = << >> THEN { "password" } ELSE { })
        |-> IF k = "lastModified" THEN ToISOString(note.lastModified)
            ELSE IF k = "password" THEN note.password[1]
            ELSE note[k] ]

\* JSON.stringify(notes), line 65
Stringify(ns) == [ i \in 1..Len(ns) |-> StringifyNote(ns[i]) ]

\* one element of JSON.parse(saved) after the map of lines 43-46
ParseNote(json) ==
    [ k \in NoteKeys
        |-> IF k = "lastModified" THEN DateOf(json.lastModified)
            ELSE IF k = "password"
            THEN (IF "password" \in DOMAIN json THEN << json.password >> ELSE << >>)
            ELSE json[k] ]

\* JSON.parse(saved).map(...), lines 27 and 43-46
Parse(saved) == [ i \in 1..Len(saved) |-> ParseNote(saved[i]) ]

-----------------------------------------------------------------------------
\* The updated collections the handlers compute (their `updatedNotes`)

\* LockToggled leaving the stored password in place on unlock
LockToggledKeepingPassword(note, pw) ==
    [ note EXCEPT !.isLocked = ~ note.isLocked,
                  !.password = IF ~ note.isLocked THEN << pw >> ELSE note.password ]

\* toggleLock, lines 186-194
LockToggled(note, pw) ==
    [ note EXCEPT !.isLocked = ~ note.isLocked,
                  !.password = IF ~ note.isLocked THEN << pw >> ELSE << >> ]

\* toggleArchive, lines 200-204
ArchiveToggled(note) == [ note EXCEPT !.isArchived = ~ note.isArchived ]

\* toggleFavorite, lines 300-302
FavoriteToggled(note) == [ note EXCEPT !.favorite = ~ note.favorite ]

\* toggleFormat, lines 210-220
FormatToggled(note, type) == [ note EXCEPT !.format[type] = << ~ note.format[type][1] >> ]

\* ContentReplaced without the version bump
ContentReplacedSameVersion(note, content, t) ==
    [ note EXCEPT !.content = content,
                  !.title = TitleOf(content),
                  !.lastModified = t,
                  !.history = Append(note.history, note.content) ]

\* ContentReplaced without the history entry
ContentReplacedSameHistory(note, content, t) ==
    [ note EXCEPT !.content = content,
                  !.title = TitleOf(content),
                  !.lastModified = t,
                  !.version = note.version + 1 ]

\* updateNote, lines 230-241: the note is rewritten whatever addToHistory is
ContentReplaced(note, content, t) ==
    [ note EXCEPT !.content = content,
                  !.title = TitleOf(content),
                  !.lastModified = t,
                  !.version = note.version + 1,
                  !.history = Append(note.history, note.content) ]

\* updateNote, lines 230-241: new Date() (line 236) is evaluated inside the
\* map, once for each note that has the id, and ts holds these readings in
\* the order of the collection.
UpdatedNotes(ns, id, content, ts) ==
    [ i \in 1..Len(ns) |->
        IF ns[i].id = id
        THEN ContentReplaced(ns[i], content, ts[Occurrence(ns, i)])
        ELSE ns[i] ]

\* UndoEffect pushing the restored content, not the current one, for redo
UndoEffectPushingPrevious(ns, id, us, rs, ts) ==
    LET previousContent == us[Len(us)]
    IN  [ undoStack |-> SubSeq(us, 1, Len(us) - 1),
          redoStack |-> Append(rs, previousContent),
          notes |-> UpdatedNotes(ns, id, previousContent, ts) ]

\* handleUndo, lines 156-162: the stacks and the collection it leaves
UndoEffect(ns, id, us, rs, ts) ==
    LET previousContent == us[Len(us)]
        currentContent == ActiveOf(ns, id).content
    IN  [ undoStack |-> SubSeq(us, 1, Len(us) - 1),
          redoStack |-> Append(rs, currentContent),
          notes |-> UpdatedNotes(ns, id, previousContent, ts) ]

\* RedoEffect leaving the redone content on the redo stack
RedoEffectKeepingTop(ns, id, us, rs, ts) ==
    LET nextContent == rs[Len(rs)]
        currentContent == ActiveOf(ns, id).content
    IN  [ redoStack |-> rs,
          undoStack |-> Append(us, currentContent),
          notes |-> UpdatedNotes(ns, id, nextContent, ts) ]

\* handleRedo, lines 169-175: the stacks and the collection it leaves
RedoEffect(ns, id, us, rs, ts) ==
    LET nextContent == rs[Len(rs)]
        currentContent == ActiveOf(ns, id).content
    IN  [ redoStack |-> SubSeq(rs, 1, Len(rs) - 1),
          undoStack |-> Append(us, currentContent),
          notes |-> UpdatedNotes(ns, id, nextContent, ts) ]

\* addTag, lines 267-271
TagAdded(note, tag) == [ note EXCEPT !.tags = Append(note.tags, tag) ]

\* removeTag, lines 279-283
TagRemoved(note, tag) ==
    [ note EXCEPT !.tags = SelectSeq(note.tags, LAMBDA x : x # tag) ]

\* deleteNote, line 293
WithoutId(ns, id) == SelectSeq(ns, LAMBDA n : n.id # id)

\* tags.includes(tag)
Includes(tags, tag) == \E i \in 1..Len(tags) : tags[i] = tag

-----------------------------------------------------------------------------
\* The derived view, lines 119-152

\* The elements of allTags, lines 119-123
allTags == UNION { { n.tags[k] : k \in 1..Len(n.tags) } : n \in { notes[i] : i \in 1..Len(notes) } }

\* tagMatch with some() in the place of every()
tagMatchSome(note, st) ==
    Len(st) = 0 \/ \E k \in 1..Len(st) : Includes(note.tags, st[k])

\* tagMatch, line 130
tagMatch(note, st) ==
    Len(st) = 0 \/ \A k \in 1..Len(st) : Includes(note.tags, st[k])

\* the predicate of notes.filter, lines 126-132
Matches(note, sq, st) ==
    LET searchLower == ToLowerCase(sq)
        titleMatch == StringIncludes(ToLowerCase(note.title), searchLower)
        contentMatch == StringIncludes(ToLowerCase(Chars(note.content)), searchLower)
    IN  (titleMatch \/ contentMatch) /\ tagMatch(note, st)

\* comparison, lines 135-149
Comparison(a, b, so) ==
    CASE so = "modified" -> b.lastModified - a.lastModified
      [] so = "title" -> localeCompare(a.title, b.title)
      [] so = "created" -> ParseInt(a.id) - ParseInt(b.id)
      [] so = "archived" -> (IF b.isArchived THEN 1 ELSE 0) - (IF a.isArchived THEN 1 ELSE 0)

\* the comparator of filtered.sort, line 150
Comparator(a, b, so, sd) ==
    IF sd = "desc" THEN Comparison(a, b, so) ELSE 0 - Comparison(a, b, so)

\* Array.prototype.sort is stable: x goes behind the last element that the
\* comparator does not put after it.
Insert(sorted, x, so, sd) ==
    LET before == { j \in 1..Len(sorted) : Comparator(sorted[j], x, so, sd) <= 0 }
        k == IF before = { } THEN 0 ELSE CHOOSE j \in before : \A i \in before : i <= j
    IN  SubSeq(sorted, 1, k) \o << x >> \o SubSeq(sorted, k + 1, Len(sorted))

RECURSIVE Sort(_, _, _)
Sort(seq, so, sd) ==
    IF seq = << >> THEN << >>
    ELSE Insert(Sort(SubSeq(seq, 1, Len(seq) - 1), so, sd), seq[Len(seq)], so, sd)

\* filteredNotes as a function of its five inputs, lines 125-152
FilterAndSort(ns, sq, st, so, sd) ==
    Sort(SelectSeq(ns, LAMBDA n : Matches(n, sq, st)), so, sd)

filteredNotes ==
    FilterAndSort(notes, searchQuery, selectedTags, sortOption, sortDirection)

-----------------------------------------------------------------------------
\* State after construction: no saved collection, the seeded welcome note.

\* The clock stands at some millisecond when the component mounts; only the
\* order and the equality of its readings matter.
InitStore ==
    /\ now = 10
    /\ notes = << WelcomeNote(now) >>
    /\ activeNoteId = notes[1].id
    /\ statusMessage = ""
    /\ timers = << >>
    /\ searchQuery = << >>
    /\ selectedTags = << >>
    /\ sortOption = "modified"
    /\ sortDirection = "desc"
    /\ newTag = << >>
    /\ password = << >>
    /\ undoStack = << >>
    /\ redoStack = << >>
    /\ kbNotes = notes
    /\ storage = Stringify(notes)
    /\ crashed = FALSE
    /\ copying = 0
    /\ ops = 0
    /\ asides = 0

\* window.matchMedia('(prefers-color-scheme: dark)').matches, line 54, is
\* what the system of the user says.
Init ==
    /\ InitStore
    /\ isDarkMode \in BOOLEAN
    /\ log = << >> /\ back = 0 /\ phase = "none"

\* One more event is handled by a mounted component.
Step ==
    /\ ~ crashed
    /\ ops < MaxOps
    /\ ops' = ops + 1
    /\ UNCHANGED << session, query, chrome, asides >>

\* One more event is handled, one of those MaxAsides bounds.
Aside ==
    /\ ~ crashed
    /\ ops < MaxOps
    /\ asides < MaxAsides
    /\ ops' = ops + 1
    /\ asides' = asides + 1
    /\ UNCHANGED session

\* The note has a row in the list: the rows are the notes of filteredNotes
\* (line 464), those the filter of lines 126-132 lets through, which the sort
\* of lines 134-151 only reorders.
HasRow(note) ==
    note \in { n \in { notes[k] : k \in 1..Len(notes) } :
                 Matches(n, searchQuery, selectedTags) }

\* The delay of the timer of showStatus, line 331
StatusDelay == 2000

\* showStatus, lines 329-332, called while the clock reads t: the timer it
\* starts is due StatusDelay later (its callback is StatusTimeout)
showStatusAt(message, t) ==
    /\ statusMessage' = message
    /\ timers' = Append(timers, t + StatusDelay)

\* showStatus called by a handler that has not read the clock since it was
\* entered
showStatus(message) == showStatusAt(message, now)

\* The keydown effect (lines 69-115) re-registers handleKeyboard, with the
\* collection of the new render, only when one of its dependencies changed;
\* every setUndoStack / setRedoStack call installs a new array.
RegisterKeyboard(stacksSet) ==
    kbNotes' = IF stacksSet \/ activeNoteId' # activeNoteId THEN notes' ELSE kbNotes

\* The persistence effect (lines 64-67) runs after the render that follows a
\* setNotes; a render that throws commits nothing and runs no effect.
SaveEffect ==
    storage' = IF crashed' \/ notes' = notes THEN storage ELSE Stringify(notes')

-----------------------------------------------------------------------------
\* Handlers. Those the keyboard can dispatch take the collection `ns` their
\* closure holds: `notes` for a click, `kbNotes` for a shortcut.

\* password input onChange, line 674
setPassword(p) ==
    /\ p # password
    /\ password' = p
    /\ UNCHANGED << notes, activeNoteId, statusMessage, timers, newTag, undoStack,
                    redoStack, kbNotes, now, crashed >>

SetPassword(p) == Step /\ setPassword(p) /\ SaveEffect

\* tag input onChange, line 686
SetNewTag(t) ==
    /\ Step
    /\ t # newTag
    /\ newTag' = t
    /\ UNCHANGED << notes, activeNoteId, statusMessage, timers, password, undoStack,
                    redoStack, kbNotes, storage, now, crashed >>

\* createNewNote starting a fresh undo/redo session for the new note
createNewNoteClearingStacks(ns) ==
    \E ts \in Readings(2, now) :
        /\ notes' = Append(ns, NewNote(ts[1], ts[2]))
        /\ activeNoteId' = NewNote(ts[1], ts[2]).id
        /\ now' = ts[2]
        /\ showStatusAt("New note created", ts[2])
        /\ undoStack' = << >>
        /\ redoStack' = << >>
        /\ kbNotes' = notes'
        /\ UNCHANGED << newTag, password, crashed >>

\* createNewNote, lines 245-263: the clock is read twice, for the id (line
\* 247) and for lastModified (line 250).
createNewNote(ns) ==
    \E ts \in Readings(2, now) :
        /\ notes' = Append(ns, NewNote(ts[1], ts[2]))
        /\ activeNoteId' = NewNote(ts[1], ts[2]).id
        /\ now' = ts[2]
        /\ showStatusAt("New note created", ts[2])
        /\ RegisterKeyboard(FALSE)
        /\ UNCHANGED << newTag, password, undoStack, redoStack, crashed >>

\* the New Note button, lines 386-394
CreateClick == Step /\ createNewNote(notes) /\ SaveEffect

\* Ctrl/Cmd + N, lines 73-76
CreateKey == Step /\ createNewNote(kbNotes) /\ SaveEffect

\* toggleLock without the check of the candidate password
toggleLockUnguarded(id) ==
    LET updatedNotes == MapId(notes, id, LAMBDA n : LockToggled(n, password))
    IN  /\ notes' = updatedNotes
        /\ showStatus(IF updatedNotes[FindIndex(updatedNotes, id)].isLocked
                      THEN "Note locked" ELSE "Note unlocked")
        /\ UNCHANGED << activeNoteId, newTag, password, undoStack,
                        redoStack, kbNotes, now, crashed >>

\* toggleLock, lines 180-197
toggleLock(id) ==
    IF password = << >>
    THEN /\ showStatus("Please enter a password first")
         /\ UNCHANGED << notes, activeNoteId, newTag, password, undoStack,
                         redoStack, kbNotes, now, crashed >>
    ELSE LET updatedNotes == MapId(notes, id, LAMBDA n : LockToggled(n, password))
         IN  /\ notes' = updatedNotes
             /\ showStatus(IF updatedNotes[FindIndex(updatedNotes, id)].isLocked
                           THEN "Note locked" ELSE "Note unlocked")
             /\ UNCHANGED << activeNoteId, newTag, password, undoStack,
                             redoStack, kbNotes, now, crashed >>

\* the lock button of a row, lines 516-526
ToggleLock(i) == Step /\ HasRow(notes[i]) /\ toggleLock(notes[i].id) /\ SaveEffect

\* toggleArchive, lines 199-207
toggleArchive(id) ==
    LET updatedNotes == MapId(notes, id, ArchiveToggled)
    IN  /\ notes' = updatedNotes
        /\ showStatus(IF updatedNotes[FindIndex(updatedNotes, id)].isArchived
                      THEN "Note archived" ELSE "Note unarchived")
        /\ UNCHANGED << activeNoteId, newTag, password, undoStack, redoStack,
                        kbNotes, now, crashed >>

\* the archive button of a row, lines 527-537
ToggleArchive(i) == Step /\ HasRow(notes[i]) /\ toggleArchive(notes[i].id) /\ SaveEffect

\* toggleFavorite, lines 299-305
toggleFavorite(id) ==
    LET updatedNotes == MapId(notes, id, FavoriteToggled)
    IN  /\ notes' = updatedNotes
        /\ showStatus(IF updatedNotes[FindIndex(updatedNotes, id)].favorite
                      THEN "Added to favorites" ELSE "Removed from favorites")
        /\ UNCHANGED << activeNoteId, newTag, password, undoStack, redoStack,
                        kbNotes, now, crashed >>

\* the favorite button of a row, lines 503-515
ToggleFavorite(i) == Step /\ HasRow(notes[i]) /\ toggleFavorite(notes[i].id) /\ SaveEffect

\* toggleFormat, lines 209-222
toggleFormat(ns, type) ==
    /\ notes' = MapId(ns, activeNoteId, LAMBDA n : FormatToggled(n, type))
    /\ UNCHANGED << activeNoteId, statusMessage, timers, newTag, password, undoStack,
                    redoStack, kbNotes, now, crashed >>

ToggleFormatClick(type) == Step /\ toggleFormat(notes, type) /\ SaveEffect

ToggleFormatKey(type) == Step /\ toggleFormat(kbNotes, type) /\ SaveEffect

\* updateNote leaving the redo stack as it is
updateNoteKeepingRedo(ns, content, addToHistory) ==
    /\ addToHistory =>
          /\ undoStack' = Append(undoStack, ActiveOf(ns, activeNoteId).content)
          /\ redoStack' = redoStack
    /\ \E ts \in Readings(Count(ns, activeNoteId), now) :
          /\ notes' = UpdatedNotes(ns, activeNoteId, content, ts)
          /\ now' = LastReading(ts, now)

\* updateNote, lines 224-243, as held by a closure over `ns`. With
\* addToHistory false the caller has set the stacks itself.
updateNote(ns, content, addToHistory) ==
    /\ addToHistory =>
          /\ undoStack' = Append(undoStack, ActiveOf(ns, activeNoteId).content)
          /\ redoStack' = << >>
    /\ \E ts \in Readings(Count(ns, activeNoteId), now) :
          /\ notes' = UpdatedNotes(ns, activeNoteId, content, ts)
          /\ now' = LastReading(ts, now)

\* textarea onChange, lines 723-739: a disabled text area takes no input, and
\* onChange fires only when the value changed.
textAreaEdit(content) ==
    /\ ~ Gated(activeNote, password)
    /\ content # activeNote.content
    /\ updateNote(notes, content, TRUE)
    /\ RegisterKeyboard(TRUE)
    /\ UNCHANGED << activeNoteId, statusMessage, timers, newTag, password, crashed >>

TextAreaEdit(content) == Step /\ textAreaEdit(content) /\ SaveEffect

\* handleUndo reporting "Undo" when there is nothing to undo
handleUndoReportingEmpty(ns) ==
    IF Len(undoStack) > 0
    THEN \E ts \in Readings(Count(ns, activeNoteId), now) :
           LET e == UndoEffect(ns, activeNoteId, undoStack, redoStack, ts)
           IN  /\ undoStack' = e.undoStack
               /\ redoStack' = e.redoStack
               /\ notes' = e.notes
               /\ now' = LastReading(ts, now)
               /\ showStatusAt("Undo", LastReading(ts, now))
               /\ RegisterKeyboard(TRUE)
               /\ UNCHANGED << activeNoteId, newTag, password, crashed >>
    ELSE /\ showStatus("Undo")
         /\ UNCHANGED << notes, activeNoteId, newTag, password,
                         undoStack, redoStack, kbNotes, now, crashed >>

\* handleUndo, lines 154-165; its updateNote(previousContent, false) reads
\* the clock as every updateNote does
handleUndo(ns) ==
    IF Len(undoStack) > 0
    THEN \E ts \in Readings(Count(ns, activeNoteId), now) :
           LET e == UndoEffect(ns, activeNoteId, undoStack, redoStack, ts)
           IN  /\ undoStack' = e.undoStack
               /\ redoStack' = e.redoStack
               /\ notes' = e.notes
               /\ now' = LastReading(ts, now)
               /\ showStatusAt("Undo", LastReading(ts, now))
               /\ RegisterKeyboard(TRUE)
               /\ UNCHANGED << activeNoteId, newTag, password, crashed >>
    ELSE UNCHANGED << notes, activeNoteId, statusMessage, timers, newTag, password,
                      undoStack, redoStack, kbNotes, now, crashed >>

\* the Undo button, lines 573-584, disabled while the stack is empty
undoButton == Len(undoStack) > 0 /\ handleUndo(notes)

UndoClick == Step /\ undoButton /\ SaveEffect

\* Ctrl/Cmd + Z, lines 101-104
UndoKey == Step /\ handleUndo(kbNotes) /\ SaveEffect

\* handleRedo, lines 167-178
handleRedo(ns) ==
    IF Len(redoStack) > 0
    THEN \E ts \in Readings(Count(ns, activeNoteId), now) :
           LET e == RedoEffect(ns, activeNoteId, undoStack, redoStack, ts)
           IN  /\ redoStack' = e.redoStack
               /\ undoStack' = e.undoStack
               /\ notes' = e.notes
               /\ now' = LastReading(ts, now)
               /\ showStatusAt("Redo", LastReading(ts, now))
               /\ RegisterKeyboard(TRUE)
               /\ UNCHANGED << activeNoteId, newTag, password, crashed >>
    ELSE UNCHANGED << notes, activeNoteId, statusMessage, timers, newTag, password,
                      undoStack, redoStack, kbNotes, now, crashed >>

\* the Redo button, lines 585-596, disabled while the stack is empty
redoButton == Len(redoStack) > 0 /\ handleRedo(notes)

RedoClick == Step /\ redoButton /\ SaveEffect

\* Ctrl/Cmd + Y, lines 105-108
RedoKey == Step /\ handleRedo(kbNotes) /\ SaveEffect

\* addTag, lines 265-276
addTag ==
    IF newTag # << >> /\ ~ Includes(activeNote.tags, newTag)
    THEN /\ notes' = MapId(notes, activeNoteId, LAMBDA n : TagAdded(n, newTag))
         /\ newTag' = << >>
         /\ showStatus("Tag added")
         /\ UNCHANGED << activeNoteId, password, undoStack, redoStack,
                         kbNotes, now, crashed >>
    ELSE UNCHANGED << notes, activeNoteId, statusMessage, timers, newTag, password,
                      undoStack, redoStack, kbNotes, now, crashed >>

AddTag == Step /\ addTag /\ SaveEffect

\* removeTag, lines 278-286
removeTag(tagToRemove) ==
    /\ notes' = MapId(notes, activeNoteId, LAMBDA n : TagRemoved(n, tagToRemove))
    /\ showStatus("Tag removed")
    /\ UNCHANGED << activeNoteId, newTag, password, undoStack, redoStack,
                    kbNotes, now, crashed >>

\* the x button of a tag of the active note, lines 703-719
RemoveTag(tag) == Step /\ Includes(activeNote.tags, tag) /\ removeTag(tag) /\ SaveEffect

\* deleteNote, lines 288-297. When every remaining note has the deleted id,
\* updatedNotes is empty: setNotes([]) has been called when updatedNotes[0].id
\* throws, and the render of an empty collection throws at notes[0].id (line 49).
deleteNote(id) ==
    IF Len(notes) = 1
    THEN /\ showStatus("Cannot delete the last note")
         /\ UNCHANGED << notes, activeNoteId, newTag, password, undoStack,
                         redoStack, kbNotes, now, crashed >>
    ELSE LET updatedNotes == WithoutId(notes, id)
         IN  IF updatedNotes = << >>
             THEN /\ notes' = updatedNotes
                  /\ crashed' = TRUE
                  /\ UNCHANGED << activeNoteId, statusMessage, timers, newTag, password,
                                  undoStack, redoStack, kbNotes, now >>
             ELSE /\ notes' = updatedNotes
                  /\ activeNoteId' = updatedNotes[1].id
                  /\ showStatus("Note deleted")
                  /\ RegisterKeyboard(FALSE)
                  /\ UNCHANGED << newTag, password, undoStack, redoStack,
                                  now, crashed >>

\* the delete button of a row, lines 538-548
DeleteNote(i) == Step /\ HasRow(notes[i]) /\ deleteNote(notes[i].id) /\ SaveEffect

\* the click on a row of the note list, lines 472-478
selectNote(note) ==
    IF Gated(note, password)
    THEN /\ showStatus("Please enter the correct password")
         /\ UNCHANGED << notes, activeNoteId, newTag, password, undoStack,
                         redoStack, kbNotes, now, crashed >>
    ELSE /\ activeNoteId' = note.id
         /\ UNCHANGED << notes, statusMessage, timers, newTag, password, undoStack,
                         redoStack, now, crashed >>
         /\ RegisterKeyboard(FALSE)

Select(i) == Step /\ HasRow(notes[i]) /\ selectNote(notes[i]) /\ SaveEffect

\* The texts the user can leave in the search box.
SearchTexts ==
    { << >>, << "A", "N" >>, << "a", "p" >>, << "y", "o" >>, << "n", "e", "w" >> }

SortOptions == { "modified", "title", "created", "archived" }

\* What a gesture that changes the query or only reports a status leaves alone
store == << notes, activeNoteId, newTag, password, undoStack, redoStack,
            kbNotes, storage, now, crashed, session >>

\* toggleTheme, lines 334-337
toggleTheme ==
    /\ isDarkMode' = ~ isDarkMode
    /\ showStatus(IF ~ isDarkMode THEN "Dark mode enabled" ELSE "Light mode enabled")
    /\ UNCHANGED << store, query, copying >>

\* the theme button, line 368
ToggleTheme == Aside /\ toggleTheme

\* downloadNote, lines 307-318: the file goes to the browser, and the store
\* keeps the status only
downloadNote ==
    /\ showStatus("Note downloaded")
    /\ UNCHANGED << store, query, chrome >>

\* the Download button, line 609
DownloadClick == Aside /\ downloadNote

\* Ctrl/Cmd + D, lines 81-84
DownloadKey == Aside /\ downloadNote

\* copyToClipboard, lines 320-327, up to its await: the write is in flight
\* when the click returns
copyToClipboard ==
    /\ copying' = copying + 1
    /\ UNCHANGED << store, query, statusMessage, timers, isDarkMode >>

\* the Copy button, line 598
CopyClick == Aside /\ copyToClipboard

\* copyToClipboard, lines 323-326, after its await: the write was fulfilled
\* (ok) or rejected
copySettled(ok) ==
    /\ copying > 0
    /\ copying' = copying - 1
    /\ showStatus(IF ok THEN "Copied to clipboard" ELSE "Failed to copy")
    /\ UNCHANGED << notes, activeNoteId, newTag, password, undoStack,
                    redoStack, kbNotes, now, crashed, isDarkMode >>

CopySettled(ok) ==
    /\ ~ crashed
    /\ ops < MaxOps
    /\ ops' = ops + 1
    /\ UNCHANGED << session, query, asides >>
    /\ copySettled(ok)
    /\ SaveEffect

\* the Save button, line 620
SaveClick ==
    /\ Aside
    /\ showStatus("Auto-saved")
    /\ UNCHANGED << store, query, chrome >>

\* Ctrl/Cmd + S, lines 77-80
SaveKey ==
    /\ Aside
    /\ showStatus("Saved")
    /\ UNCHANGED << store, query, chrome >>

\* search input onChange, line 404
setSearchQuery(q) ==
    /\ q # searchQuery
    /\ searchQuery' = q
    /\ UNCHANGED << selectedTags, sortOption, sortDirection, store,
                    statusMessage, timers, chrome >>

\* sort direction button, line 419
toggleSortDirection ==
    /\ sortDirection' = IF sortDirection = "asc" THEN "desc" ELSE "asc"
    /\ UNCHANGED << searchQuery, selectedTags, sortOption, store,
                    statusMessage, timers, chrome >>

\* sort option buttons, line 429
setSortOption(option) ==
    /\ option # sortOption
    /\ sortOption' = option
    /\ UNCHANGED << searchQuery, selectedTags, sortDirection, store,
                    statusMessage, timers, chrome >>

\* tag buttons, lines 444-449
toggleSelectedTag(tag) ==
    /\ selectedTags' = IF Includes(selectedTags, tag)
                       THEN SelectSeq(selectedTags, LAMBDA t : t # tag)
                       ELSE Append(selectedTags, tag)
    /\ UNCHANGED << searchQuery, sortOption, sortDirection, store,
                    statusMessage, timers, chrome >>

SearchChange(q) == Aside /\ setSearchQuery(q)

SortDirectionClick == Aside /\ toggleSortDirection

SortOptionClick(option) == Aside /\ setSortOption(option)

TagClick(tag) == Aside /\ toggleSelectedTag(tag)

\* Time passes between two events: the clock never goes back, and an event
\* with no Tick before it is entered at the millisecond the one before it
\* left the clock at.
Tick ==
    /\ Step
    /\ now' = now + 1
    /\ UNCHANGED << notes, activeNoteId, statusMessage, timers, newTag, password,
                    undoStack, redoStack, kbNotes, storage, crashed >>

\* the callback of the timer of showStatus, line 331: the timers have one
\* delay, so the oldest is the next to run, and it runs when the clock has
\* reached its due time
statusTimeout ==
    /\ timers # << >>
    /\ statusMessage' = ""
    /\ timers' = Tail(timers)
    /\ now' = IF now < Head(timers) THEN Head(timers) ELSE now
    /\ UNCHANGED << notes, activeNoteId, newTag, password, undoStack,
                    redoStack, kbNotes, crashed >>

StatusTimeout == Step /\ statusTimeout /\ SaveEffect

\* The page is loaded again: the component is constructed from what
\* localStorage holds (lines 25-62), and the persistence effect runs after
\* its first render.
Restart ==
    /\ ops < MaxOps
    /\ ops' = ops + 1
    /\ notes' = Parse(storage)
    /\ activeNoteId' = notes'[1].id
    /\ statusMessage' = ""
    /\ timers' = << >>
    /\ searchQuery' = << >>
    /\ selectedTags' = << >>
    /\ sortOption' = "modified"
    /\ sortDirection' = "desc"
    /\ newTag' = << >>
    /\ password' = << >>
    /\ undoStack' = << >>
    /\ redoStack' = << >>
    /\ kbNotes' = notes'
    /\ storage' = Stringify(notes')
    /\ crashed' = FALSE
    /\ isDarkMode' \in BOOLEAN
    /\ copying' = 0
    /\ UNCHANGED << now, asides, session >>

Next ==
    \/ \E p \in Passwords : SetPassword(p)
    \/ \E t \in TagInputs : SetNewTag(t)
    \/ CreateClick
    \/ CreateKey
    \/ \E i \in 1..Len(notes) : ToggleLock(i)
    \/ \E i \in 1..Len(notes) : ToggleArchive(i)
    \/ \E i \in 1..Len(notes) : ToggleFavorite(i)
    \/ \E type \in FormatTypes : ToggleFormatClick(type)
    \/ \E type \in FormatTypes : ToggleFormatKey(type)
    \/ \E c \in Contents : TextAreaEdit(c)
    \/ UndoClick
    \/ UndoKey
    \/ RedoClick
    \/ RedoKey
    \/ AddTag
    \/ \E tag \in TagTexts : RemoveTag(tag)
    \/ \E i \in 1..Len(notes) : DeleteNote(i)
    \/ \E i \in 1..Len(notes) : Select(i)
    \/ ToggleTheme
    \/ DownloadClick
    \/ DownloadKey
    \/ CopyClick
    \/ \E ok \in BOOLEAN : CopySettled(ok)
    \/ SaveClick
    \/ SaveKey
    \/ \E q \in SearchTexts : SearchChange(q)
    \/ SortDirectionClick
    \/ \E option \in SortOptions : SortOptionClick(option)
    \/ \E tag \in allTags : TagClick(tag)
    \/ Tick
    \/ StatusTimeout
    \/ Restart

Spec == Init /\ [][Next]_vars

-----------------------------------------------------------------------------
\* An editing session: from the fresh store, optionally one create(), then up
\* to MaxEdits edits of the active note, then undos, then redos, by button or
\* by shortcut, and nothing else. log records the contents c0..ck the active
\* note went through and back the number of undos not yet redone.

SessionInit ==
    /\ InitStore
    /\ isDarkMode = FALSE
    /\ log = << WelcomeContent >> /\ back = 0 /\ phase = "edit"

SessionCreateClick ==
    /\ phase = "edit" /\ Len(log) = 1 /\ Len(notes) = 1
    /\ createNewNote(notes)
    /\ log' = << "" >>
    /\ UNCHANGED << back, phase, ops, asides, query, chrome >>
    /\ SaveEffect

SessionCreateKey ==
    /\ phase = "edit" /\ Len(log) = 1 /\ Len(notes) = 1
    /\ createNewNote(kbNotes)
    /\ log' = << "" >>
    /\ UNCHANGED << back, phase, ops, asides, query, chrome >>
    /\ SaveEffect

SessionEdit(content) ==
    /\ phase = "edit" /\ Len(log) <= MaxEdits
    /\ textAreaEdit(content)
    /\ log' = Append(log, content)
    /\ UNCHANGED << back, phase, ops, asides, query, chrome >>
    /\ SaveEffect

SessionUndoClick ==
    /\ phase \in { "edit", "undo" } /\ back < Len(log) - 1
    /\ undoButton
    /\ back' = back + 1 /\ phase' = "undo"
    /\ UNCHANGED << log, ops, asides, query, chrome >>
    /\ SaveEffect

SessionUndoKey ==
    /\ phase \in { "edit", "undo" } /\ back < Len(log) - 1
    /\ handleUndo(kbNotes)
    /\ back' = back + 1 /\ phase' = "undo"
    /\ UNCHANGED << log, ops, asides, query, chrome >>
    /\ SaveEffect

SessionRedoClick ==
    /\ phase \in { "undo", "redo" } /\ back > 0
    /\ redoButton
    /\ back' = back - 1 /\ phase' = "redo"
    /\ UNCHANGED << log, ops, asides, query, chrome >>
    /\ SaveEffect

SessionRedoKey ==
    /\ phase \in { "undo", "redo" } /\ back > 0
    /\ handleRedo(kbNotes)
    /\ back' = back - 1 /\ phase' = "redo"
    /\ UNCHANGED << log, ops, asides, query, chrome >>
    /\ SaveEffect

SessionStatusTimeout ==
    ~ crashed /\ statusTimeout /\ UNCHANGED << ops, asides, session, query, chrome, storage >>

SessionNext ==
    \/ SessionCreateClick
    \/ SessionCreateKey
    \/ \E c \in Contents : SessionEdit(c)
    \/ SessionUndoClick
    \/ SessionUndoKey
    \/ SessionRedoClick
    \/ SessionRedoKey
    \/ SessionStatusTimeout

SpecSession == SessionInit /\ [][SessionNext]_vars

-----------------------------------------------------------------------------
\* The lock gate alone: the runs of up to MaxGateOps events in which the user
\* only types passwords, locks and unlocks, creates, deletes and selects
\* notes, edits, undoes and redoes.

GateStep ==
    /\ ~ crashed
    /\ ops < MaxGateOps
    /\ ops' = ops + 1
    /\ UNCHANGED << session, query, chrome, asides >>

GateSetPassword(p) == GateStep /\ setPassword(p) /\ SaveEffect

GateToggleLock(i) == GateStep /\ HasRow(notes[i]) /\ toggleLock(notes[i].id) /\ SaveEffect

GateCreate == GateStep /\ createNewNote(notes) /\ SaveEffect

GateDelete(i) == GateStep /\ HasRow(notes[i]) /\ deleteNote(notes[i].id) /\ SaveEffect

GateSelect(i) == GateStep /\ HasRow(notes[i]) /\ selectNote(notes[i]) /\ SaveEffect

GateEdit(content) == GateStep /\ textAreaEdit(content) /\ SaveEffect

GateUndoClick == GateStep /\ undoButton /\ SaveEffect

GateUndoKey == GateStep /\ handleUndo(kbNotes) /\ SaveEffect

GateRedoClick == GateStep /\ redoButton /\ SaveEffect

GateRedoKey == GateStep /\ handleRedo(kbNotes) /\ SaveEffect

GateNext ==
    \/ \E p \in Passwords : GateSetPassword(p)
    \/ \E i \in 1..Len(notes) : GateToggleLock(i)
    \/ GateCreate
    \/ \E i \in 1..Len(notes) : GateDelete(i)
    \/ \E i \in 1..Len(notes) : GateSelect(i)
    \/ \E c \in Contents : GateEdit(c)
    \/ GateUndoClick
    \/ GateUndoKey
    \/ GateRedoClick
    \/ GateRedoKey

GateInit ==
    /\ InitStore
    /\ isDarkMode = FALSE
    /\ log = << >> /\ back = 0 /\ phase = "none"

SpecGate == GateInit /\ [][GateNext]_vars

-----------------------------------------------------------------------------
\* The derived view over a saved collection: the store starts from a
\* collection of up to MaxSaved notes found in localStorage (lines 26-47), and
\* the user types in the search box, picks the sort key, flips the sort
\* direction and selects tags.

TagA == << "a" >>

TagB == << "b" >>

\* A note created at millisecond `created`, given one content and its tags,
\* last modified at t.
Saved(created, content, tags, t, archived) ==
    [ ContentReplaced(NewNote(created, created), content, t)
        EXCEPT !.tags = tags, !.isArchived = archived ]

SavedNotes ==
    { Saved(1, "Banana", << TagA >>, 8, FALSE),
      Saved(2, "Apple", << TagB >>, 6, TRUE),
      Saved(3, "cherry", << TagA, TagB >>, 6, FALSE),
      NewNote(4, 4),
      Saved(5, "Hi\nyo", << TagB, TagA >>, 9, TRUE) }

SavedCollections ==
    { c \in UNION { [ 1..n -> SavedNotes ] : n \in 1..MaxSaved } :
         \A a, b \in DOMAIN c : c[a] = c[b] => a = b }

ViewInit ==
    /\ now = 10
    /\ notes \in SavedCollections
    /\ activeNoteId = notes[1].id
    /\ statusMessage = ""
    /\ timers = << >>
    /\ searchQuery = << >>
    /\ selectedTags = << >>
    /\ sortOption = "modified"
    /\ sortDirection = "desc"
    /\ newTag = << >>
    /\ password = << >>
    /\ undoStack = << >>
    /\ redoStack = << >>
    /\ kbNotes = notes
    /\ storage = Stringify(notes)
    /\ crashed = FALSE
    /\ isDarkMode = FALSE
    /\ copying = 0
    /\ ops = 0
    /\ asides = 0
    /\ log = << >> /\ back = 0 /\ phase = "none"

\* The query handlers, uncounted
SetSearchQuery(q) == setSearchQuery(q) /\ UNCHANGED << ops, asides >>

ToggleSortDirection == toggleSortDirection /\ UNCHANGED << ops, asides >>

SetSortOption(option) == setSortOption(option) /\ UNCHANGED << ops, asides >>

ToggleSelectedTag(tag) == toggleSelectedTag(tag) /\ UNCHANGED << ops, asides >>

ViewNext ==
    \/ \E q \in SearchTexts : SetSearchQuery(q)
    \/ ToggleSortDirection
    \/ \E option \in SortOptions : SetSortOption(option)
    \/ \E tag \in allTags : ToggleSelectedTag(tag)

SpecView == ViewInit /\ [][ViewNext]_vars

-----------------------------------------------------------------------------
\* Properties

\* C1: in every reachable state the note collection contains at least one
\* note (deleteNote refuses to delete the last one).
C1_CollectionNeverEmpty == Len(notes) >= 1

\* C1, second half: deleteNote on a collection of exactly one note leaves the
\* collection and the active pointer unchanged.
C1_LastNoteKept ==
    [][ \A i \in 1..Len(notes) :
           (DeleteNote(i) /\ Len(notes) = 1) => UNCHANGED << notes, activeNoteId >> ]_vars

\* C2: in every reachable state the active note id is the id of some note of
\* the collection.
C2_ActiveIdInCollection == \E i \in 1..Len(notes) : notes[i].id = activeNoteId

\* C3: after every step, every note has a password if and only if it is locked.
C3_PasswordIffLocked ==
    \A i \in 1..Len(notes) : (notes[i].password # << >>) <=> notes[i].isLocked

\* A note was locked and unlocked again, and no note holds a password.
C3_Unlocked ==
    /\ statusMessage = "Note unlocked"
    /\ \A i \in 1..Len(notes) : ~ notes[i].isLocked /\ notes[i].password = << >>

\* C4: a click on the row of a locked note whose password differs from the
\* candidate one is rejected (active id and collection unchanged, failure
\* status set); a click on the row of any other note makes that note, the
\* i-th of the collection, the active note.
C4_SelectGate ==
    [][ \A i \in 1..Len(notes) :
           GateSelect(i) =>
              IF notes[i].isLocked /\ notes[i].password # << password >>
              THEN /\ activeNoteId' = activeNoteId
                   /\ notes' = notes
                   /\ statusMessage' = "Please enter the correct password"
              ELSE FindIndex(notes', activeNoteId') = i ]_vars

\* C4, first sentence: a click on the row of a locked note whose password
\* differs from the candidate one leaves the active id and the collection as
\* they were and sets the failure status.
C4_GateRejects ==
    [][ \A i \in 1..Len(notes) :
           (GateSelect(i) /\ notes[i].isLocked /\ notes[i].password # << password >>)
           => /\ activeNoteId' = activeNoteId
              /\ notes' = notes
              /\ statusMessage' = "Please enter the correct password" ]_vars

\* A click on a locked note other than the active one was rejected: the note
\* that was active still is.
C4_RejectedOther ==
    /\ statusMessage = "Please enter the correct password"
    /\ \E i \in 1..Len(notes) : Gated(notes[i], password)
    /\ \A i \in 1..Len(notes) :
          Gated(notes[i], password) => notes[i].id # activeNoteId

\* C4, second sentence where no two notes share an id: a click on the row of
\* a note that is not gated makes it the active note.
C4_SelectActivatesUniqueId ==
    [][ \A i \in 1..Len(notes) :
           ( /\ GateSelect(i)
             /\ ~ Gated(notes[i], password)
             /\ \A a, b \in 1..Len(notes) : notes[a].id = notes[b].id => a = b )
           => FindIndex(notes', activeNoteId') = i ]_vars

\* C5: no step changes the content of a note that is locked while the
\* candidate password differs from its stored password.
C5_LockedContentFrozen ==
    [][ \A i \in 1..Len(notes) :
           ( /\ notes[i].isLocked
             /\ notes[i].password # << password >>
             /\ i <= Len(notes')
             /\ notes'[i].id = notes[i].id )
           => notes'[i].content = notes[i].content ]_vars

\* C6: undo and redo leave the version and the history of the active note as
\* they were.
C6_UndoRedoKeepVersion ==
    [][ ( \/ Len(undoStack) > 0 /\ (UndoClick \/ UndoKey)
          \/ Len(redoStack) > 0 /\ (RedoClick \/ RedoKey) )
        => /\ ActiveOf(notes', activeNoteId').version = activeNote.version
           /\ ActiveOf(notes', activeNoteId').history = activeNote.history ]_vars

\* C7: create() makes a note of version 1 with an empty history; each edit
\* adds exactly 1 to the version of the edited note and appends its pre-edit
\* content to its history, so that N edits in a row leave version 1 + N and
\* the N pre-edit contents in order; and no step of any operation lowers the
\* version of a note.
C7_VersionCountsEdits ==
    [][ /\ (CreateClick \/ CreateKey) =>
              /\ notes'[Len(notes')].version = 1
              /\ notes'[Len(notes')].history = << >>
              /\ notes'[Len(notes')].id = activeNoteId'
        /\ \A c \in Contents :
              TextAreaEdit(c) =>
                 /\ Len(notes') = Len(notes)
                 /\ \A i \in 1..Len(notes) :
                       notes[i].id = activeNoteId =>
                          /\ notes'[i].content = c
                          /\ notes'[i].version = notes[i].version + 1
                          /\ notes'[i].history = Append(notes[i].history, notes[i].content)
        /\ \A i \in 1..Len(notes) : \A j \in 1..Len(notes') :
              ( /\ notes'[j].id = notes[i].id
                /\ Occurrence(notes', j) = Occurrence(notes, i) )
              => notes'[j].version >= notes[i].version ]_vars

\* A created note after two edits in a row: version 3, and the two pre-edit
\* contents in its history.
C7_TwoEdits ==
    \E i \in 1..Len(notes) :
       /\ notes[i].id # << "1" >>
       /\ notes[i].content = "Hi\nyo"
       /\ notes[i].version = 3
       /\ notes[i].history = << "", "Hi" >>

\* C8: wherever the undo stack is not empty, undo() then redo() leaves the
\* content of the active note as it was before the undo, and wherever the
\* redo stack is not empty, redo() then undo() does; the first of the two is
\* dispatched by button (over notes) or by shortcut (over kbNotes), and the
\* second finds the handler re-registered by the first; whatever the clock
\* reads meanwhile.
C8_UndoRedoRoundTrip ==
    ~ crashed =>
       \A ns \in { notes, kbNotes } :
          \A ts \in Readings(Count(ns, activeNoteId), now) :
             /\ Len(undoStack) > 0 =>
                   LET u == UndoEffect(ns, activeNoteId, undoStack, redoStack, ts)
                   IN  \A us \in Readings(Count(u.notes, activeNoteId), LastReading(ts, now)) :
                          LET r == RedoEffect(u.notes, activeNoteId, u.undoStack, u.redoStack, us)
                          IN  ActiveOf(r.notes, activeNoteId).content = activeNote.content
             /\ Len(redoStack) > 0 =>
                   LET r == RedoEffect(ns, activeNoteId, undoStack, redoStack, ts)
                   IN  \A us \in Readings(Count(r.notes, activeNoteId), LastReading(ts, now)) :
                          LET u == UndoEffect(r.notes, activeNoteId, r.undoStack, r.redoStack, us)
                          IN  ActiveOf(u.notes, activeNoteId).content = activeNote.content

\* An edit, its undo and the redo: the edited content is back.
C8_Redone ==
    /\ statusMessage = "Redo"
    /\ undoStack = << WelcomeContent >>
    /\ redoStack = << >>
    /\ activeNote.content = "Hi"
    /\ activeNote.history = << WelcomeContent, "Hi", WelcomeContent >>

\* C9: in an editing session from empty stacks, after k edits giving the
\* contents c1..ck, i undos and then j redos, the content of the active note
\* is c(k-i+j).
C9_StackAlgebra ==
    phase # "none" => activeNote.content = log[Len(log) - back]

\* Three edits, two undos and one redo.
C9_ThreeTwoOne == phase = "redo" /\ Len(log) = 4 /\ back = 1

\* C10: an edit through the text area leaves the undo stack as the previous
\* one with the pre-edit content of the active note on top, and the redo
\* stack empty.
C10_EditPushesAndClears ==
    [][ \A c \in Contents :
           TextAreaEdit(c) =>
              /\ undoStack' = Append(undoStack, activeNote.content)
              /\ redoStack' = << >> ]_vars

\* An edit, an undo (which fills the redo stack) and another edit.
C10_RedoCleared ==
    /\ redoStack = << >>
    /\ undoStack = << WelcomeContent >>
    /\ activeNote.content = "Hi\nyo"
    /\ activeNote.history = << WelcomeContent, "Hi", WelcomeContent >>

\* C11: undo with an empty undo stack and redo with an empty redo stack leave
\* the collection, the active pointer, both stacks and the status message
\* unchanged, and start no status timer (the buttons are disabled then, the
\* shortcuts are not).
C11_EmptyStackNoOp ==
    [][ ( \/ Len(undoStack) = 0 /\ UndoKey
          \/ Len(redoStack) = 0 /\ RedoKey )
        => UNCHANGED << notes, activeNoteId, undoStack, redoStack,
                        statusMessage, timers >> ]_vars

\* Four events, of which an edit, its undo and the status timeout are three:
\* the fourth left everything as it was, as the shortcut on an empty stack
\* does (one of the stacks is empty all along this run).
C11_NothingToUndo ==
    /\ ops = 4
    /\ undoStack = << >>
    /\ redoStack = << "Hi" >>
    /\ statusMessage = ""
    /\ Len(notes) = 1
    /\ notes[1].version = 3
    /\ notes[1].format = NoFormat
    /\ notes[1].favorite /\ ~ notes[1].isArchived
    /\ now = 10 + StatusDelay /\ timers = << >>
    /\ password = << >> /\ newTag = << >>
    /\ copying = 0 /\ asides = 0

\* The collection without its i-th note
RemoveAt(ns, i) ==
    [ j \in 1..(Len(ns) - 1) |-> IF j < i THEN ns[j] ELSE ns[j + 1] ]

\* C12: deleting the i-th note of a collection of at least 2 notes leaves the
\* collection without exactly that note: the others are still there, in the
\* same order, with all their fields.
C12_DeleteRemovesExactlyOne ==
    [][ \A i \in 1..Len(notes) :
           (DeleteNote(i) /\ Len(notes) >= 2) => notes' = RemoveAt(notes, i) ]_vars

\* C13: deleting a note of a collection of at least 2 notes makes the first
\* remaining note active if the deleted one was active, and leaves the active
\* id alone if it was not.
C13_DeleteActivation ==
    [][ \A i \in 1..Len(notes) :
           (DeleteNote(i) /\ Len(notes) >= 2) =>
              IF notes[i].id = activeNoteId
              THEN activeNoteId' = RemoveAt(notes, i)[1].id
              ELSE activeNoteId' = activeNoteId ]_vars

\* C14: toggleLock with an empty candidate password changes isLocked and
\* password of no note, locked or not, and sets the status message.
C14_EmptyPasswordRejected ==
    [][ \A i \in 1..Len(notes) :
           (password = << >> /\ ToggleLock(i)) =>
              /\ Len(notes') = Len(notes)
              /\ \A j \in 1..Len(notes) :
                    /\ notes'[j].isLocked = notes[j].isLocked
                    /\ notes'[j].password = notes[j].password
              /\ statusMessage' = "Please enter a password first" ]_vars

\* A locked note, the password field cleared, and the unlock rejected.
C14_UnlockRejected ==
    /\ statusMessage = "Please enter a password first"
    /\ password = << >>
    /\ \E i \in 1..Len(notes) : notes[i].isLocked /\ notes[i].password = << << "p" >> >>

\* C15: a mutation dispatched by a keyboard shortcut is applied to the
\* collection the preceding mutation left, as one dispatched by click is: the
\* collection after Ctrl/Cmd + B, I, U, Z, Y or N is the current collection
\* with the effect of that operation, so the effects of all earlier
\* mutations are still there.
C15_ShortcutSeesLastMutation ==
    [][ /\ \A type \in FormatTypes :
              ToggleFormatKey(type) =>
                 notes' = MapId(notes, activeNoteId, LAMBDA n : FormatToggled(n, type))
        /\ (UndoKey /\ Len(undoStack) > 0) =>
              \E ts \in Readings(Count(notes, activeNoteId), now) :
                 notes' = UndoEffect(notes, activeNoteId, undoStack, redoStack, ts).notes
        /\ (RedoKey /\ Len(redoStack) > 0) =>
              \E ts \in Readings(Count(notes, activeNoteId), now) :
                 notes' = RedoEffect(notes, activeNoteId, undoStack, redoStack, ts).notes
        /\ CreateKey =>
              \E ts \in Readings(2, now) :
                 notes' = Append(notes, NewNote(ts[1], ts[2])) ]_vars

\* C16: toggleFavorite and toggleArchive on the i-th note flip that flag of
\* that note and leave its other fields, every other note, the active pointer
\* and both stacks as they were.
C16_FlagToggleFrame ==
    [][ \A i \in 1..Len(notes) :
           /\ ToggleFavorite(i) =>
                 /\ notes' = [ notes EXCEPT ![i].favorite = ~ notes[i].favorite ]
                 /\ UNCHANGED << activeNoteId, undoStack, redoStack >>
           /\ ToggleArchive(i) =>
                 /\ notes' = [ notes EXCEPT ![i].isArchived = ~ notes[i].isArchived ]
                 /\ UNCHANGED << activeNoteId, undoStack, redoStack >> ]_vars

\* C17: in every reachable state no two notes of the collection have the
\* same id.
C17_IdsUnique ==
    \A a, b \in 1..Len(notes) : notes[a].id = notes[b].id => a = b

\* C18: create() appends one note at the end of the collection, with empty
\* content, version 1, empty history, no tags, not locked, and that note is
\* the active one; the notes that were there keep position and fields.
C18_CreateAppendsActive ==
    [][ (CreateClick \/ CreateKey) =>
           /\ Len(notes') = Len(notes) + 1
           /\ SubSeq(notes', 1, Len(notes)) = notes
           /\ LET n == notes'[Len(notes')]
              IN  /\ n.content = ""
                  /\ n.version = 1
                  /\ n.history = << >>
                  /\ n.tags = << >>
                  /\ ~ n.isLocked
           /\ FindIndex(notes', activeNoteId') = Len(notes') ]_vars

\* C18, second half: from the fresh store, create() gives 2 notes, the new
\* one active.
C18_FirstCreate ==
    [][ ((CreateClick \/ CreateKey) /\ ops = 0) =>
           /\ Len(notes') = 2
           /\ notes'[1] = notes[1]
           /\ FindIndex(notes', activeNoteId') = 2 ]_vars

\* s contains q at some position, letter for letter up to case
ContainsIgnoringCase(s, q) ==
    \E k \in 0..(Len(s) - Len(q)) :
       \A j \in 1..Len(q) : LowerChar(s[k + j]) = LowerChar(q[j])

\* The note is one the claim lets through: its title or its content contains
\* the search text, and every selected tag is one of its tags.
Wanted(note) ==
    /\ \/ ContainsIgnoringCase(note.title, searchQuery)
       \/ ContainsIgnoringCase(Chars(note.content), searchQuery)
    /\ { selectedTags[k] : k \in 1..Len(selectedTags) }
          \subseteq { note.tags[k] : k \in 1..Len(note.tags) }

\* C19: the filtered view holds exactly the notes of the collection whose
\* title or content contains the search text, case-insensitively, and whose
\* tags include every selected tag, each of them once.
C19_FilterExact ==
    /\ \A i \in 1..Len(notes) :
          Wanted(notes[i]) <=> \E k \in 1..Len(filteredNotes) : filteredNotes[k] = notes[i]
    /\ Len(filteredNotes) = Cardinality({ i \in 1..Len(notes) : Wanted(notes[i]) })

\* Tags a and b are selected over a note with only a, one with only b and one
\* with both: the view holds the one with both.
C19_BothTags ==
    /\ selectedTags = << TagA, TagB >>
    /\ searchQuery = << >>
    /\ \E i \in 1..Len(notes) : notes[i].tags = << TagA >>
    /\ \E i \in 1..Len(notes) : notes[i].tags = << TagB >>
    /\ \E i \in 1..Len(notes) : notes[i].tags = << TagA, TagB >>
    /\ Len(filteredNotes) = 1
    /\ filteredNotes[1].tags = << TagA, TagB >>

\* C20: with sort key 'title' and direction 'asc' the view lists the notes in
\* non-decreasing title order.
C20_TitleAscending ==
    (sortOption = "title" /\ sortDirection = "asc") =>
       \A i, j \in 1..Len(filteredNotes) :
          i < j => localeCompare(filteredNotes[i].title, filteredNotes[j].title) <= 0

\* C21: after every step that leaves the component mounted, what storage
\* holds deserializes, lastModified reconstituted, to the collection in
\* memory, and a restart of a mounted store loads the collection it had.
C21_StorageRoundTrip ==
    [][ /\ ~ crashed' => Parse(storage') = notes'
        /\ (Restart /\ ~ crashed) => notes' = notes ]_vars

\* The store was restarted after the seeded note was locked with 'p': the
\* loaded note is locked with 'p', and the candidate password is empty again.
C21_LockedNoteReloaded ==
    /\ ops = 3
    /\ Len(notes) = 1
    /\ notes[1].isLocked
    /\ notes[1].password = << << "p" >> >>
    /\ password = << >>
    /\ statusMessage = ""
    /\ storage = Stringify(notes)

\* C22: select, create and delete leave the undo stack and the redo stack as
\* they were, whichever note becomes active; by contraposition, a step that
\* changes one of the stacks is none of them.
C22_ActiveChangeKeepsStacks ==
    [][ (undoStack' # undoStack \/ redoStack' # redoStack)
        => ~ ( \/ CreateClick
               \/ CreateKey
               \/ \E i \in 1..Len(notes) : DeleteNote(i)
               \/ \E i \in 1..Len(notes) : Select(i) ) ]_vars

\* The seeded note was edited and undone, then a note was created: the new
\* note is active and both stacks still hold the seeded note's contents.
C22_StacksOutliveSwitch ==
    /\ statusMessage = "New note created"
    /\ Len(notes) = 2
    /\ activeNoteId = notes[2].id
    /\ undoStack = << >>
    /\ redoStack = << "Hi" >>

\* C23: toggleLock with a non-empty candidate p on the i-th note unlocks it
\* and clears its password if it was locked, whatever its stored password,
\* locks it with password p if it was not, and changes isLocked and password
\* of no other note.
C23_ToggleLockPerNote ==
    [][ \A i \in 1..Len(notes) :
           (ToggleLock(i) /\ password # << >>) =>
              /\ Len(notes') = Len(notes)
              /\ notes'[i].isLocked = ~ notes[i].isLocked
              /\ notes'[i].password = IF notes[i].isLocked THEN << >> ELSE << password >>
              /\ \A j \in 1..Len(notes) \ { i } :
                    /\ notes'[j].isLocked = notes[j].isLocked
                    /\ notes'[j].password = notes[j].password ]_vars

\* C24: no step makes active a note that is locked with a stored password
\* other than the candidate password.
C24_NoGatedActivation ==
    [][ activeNoteId' # activeNoteId =>
           \A i \in 1..Len(notes') :
              notes'[i].id = activeNoteId' => ~ Gated(notes'[i], password') ]_vars

\* C25: a locked note stays locked with the same stored password through
\* every step other than a toggleLock on it with a non-empty candidate and
\* the deletion of a note.
C25_LockPersists ==
    [][ \A i \in 1..Len(notes) : \A j \in 1..Len(notes') :
           ( /\ notes[i].isLocked
             /\ notes'[j].id = notes[i].id
             /\ Occurrence(notes', j) = Occurrence(notes, i)
             /\ ~ \E k \in 1..Len(notes) :
                    ToggleLock(k) /\ notes[k].id = notes[i].id /\ password # << >>
             /\ ~ \E k \in 1..Len(notes) : DeleteNote(k) )
           => /\ notes'[j].isLocked
              /\ notes'[j].password = notes[i].password ]_vars

\* C26: every note has version = 1 + the length of its history.
C26_VersionIsHistoryLength ==
    \A i \in 1..Len(notes) : notes[i].version = 1 + Len(notes[i].history)

\* An edit of the seeded note, its undo and the redo: version 4 and the three
\* replaced contents in the history.
C26_ThreeReplacements ==
    /\ statusMessage = "Redo"
    /\ Len(notes) = 1
    /\ notes[1].version = 4
    /\ notes[1].history = << WelcomeContent, "Hi\nyo", WelcomeContent >>

====
